---- MODULE Spec2Model ----
(***************************************************************************)
(* Model of sshcdm.py: the deploy flow of main_menu (choice '6'), with its *)
(* background connect thread, the operator's retry menu, wait_for_dist,    *)
(* sftp_upload and save_history_record.  A behaviour is one pass through   *)
(* choice '6', from the menu prompt until control is back in the menu loop *)
(* (pc = "returned") or the process has ended (pc = "crashed").            *)
(* UpdateSpec models the menu's version and digest checks and self_update  *)
(* (choice '12') the same way, with upc as its position.                   *)
(*                                                                         *)
(* A path string is a sequence of tokens: the separators "/" and "\\",     *)
(* the dot ".", and name fragments.  A file or directory name is a         *)
(* non-empty sequence of tokens holding no "/".                            *)
(***************************************************************************)
EXTENDS Integers, Sequences, FiniteSets, TLC

\* ---------------------------------------------------------------- bounds
\* The deepest directory chain among the local trees.
MaxDepth == 2

\* ------------------------------------------------------ program constants
max_retries == 2
timeout == 600

\* t.join(20) and t.join(0.1) of the retry loop, in tenths of a second.
JoinTimeout == 200

JoinGrace == 1

\* ------------------------------------------------------------ path strings
\* str.replace(old, new) for one-character patterns.
Replace(s, old, new) == [i \in 1..Len(s) |-> IF s[i] = old THEN new ELSE s[i]]

\* os.sep of the machine the program runs on.
PathSep(os) == IF os = "nt" THEN "\\" ELSE "/"

IsSep(os, c) == c = "/" \/ (os = "nt" /\ c = "\\")

\* os.path.join(a, b): b alone when it is absolute, else a and b with one
\* separator between them (none when a already ends with a separator).
PathJoin(os, a, b) ==
    IF b # <<>> /\ IsSep(os, b[1]) THEN b
    ELSE IF a = <<>> THEN b
    ELSE IF IsSep(os, a[Len(a)]) THEN a \o b
    ELSE a \o <<PathSep(os)>> \o b

\* The components of a local directory (a sequence of names) joined by os.sep.
RECURSIVE JoinNames(_, _)
JoinNames(os, d) ==
    IF d = <<>> THEN <<>>
    ELSE IF Len(d) = 1 THEN d[1]
    ELSE d[1] \o <<PathSep(os)>> \o JoinNames(os, Tail(d))

\* os.path.relpath(root, local_dir) for a directory d below local_dir,
\* d given by its components: "." for local_dir itself.
RelPath(os, d) == IF d = <<>> THEN <<".">> ELSE JoinNames(os, d)

\* remote_path of sftp_upload for the local directory d.
RemoteDirOf(os, remote_dir, d) ==
    Replace(PathJoin(os, remote_dir, RelPath(os, d)), "\\", "/")

\* remote_file of sftp_upload for the file named file in remote_path.
RemoteFileOf(os, remote_path, file) ==
    Replace(PathJoin(os, remote_path, file), "\\", "/")

\* The SFTP server's reading of a path string: its components between "/",
\* empty components and "." dropped.
RECURSIVE SplitAcc(_, _, _)
SplitAcc(s, cur, acc) ==
    IF s = <<>> THEN (IF cur = <<>> THEN acc ELSE Append(acc, cur))
    ELSE IF Head(s) = "/"
         THEN SplitAcc(Tail(s), <<>>, IF cur = <<>> THEN acc ELSE Append(acc, cur))
         ELSE SplitAcc(Tail(s), Append(cur, Head(s)), acc)

Resolve(s) == SelectSeq(SplitAcc(s, <<>>, <<>>), LAMBDA c : c # <<".">>)

Parent(p) == SubSeq(p, 1, Len(p) - 1)

\* ------------------------------------------------------------- local trees
\* A tree: its directories (sequences of names, the root <<>>) and its files
\* (<<directory, name>>).
TreeEmpty == [dirs |-> {<<>>}, files |-> {}]

\* The names of the nested directories, outermost first, and of the file each
\* directory of a chain holds.
DirNames == <<"js", "lib", "ext", "more">>

FileNames == <<"index.html", "app.js", "util.js", "core.js", "base.js">>

DirAt(k) == [i \in 1..k |-> <<DirNames[i]>>]

\* A chain of k nested directories below the root, one file in each directory:
\* Chain(0) is dist/{index.html}, Chain(1) is dist/{index.html, js/app.js}.
Chain(k) ==
    [dirs |-> {DirAt(i) : i \in 0..k},
     files |-> {<<DirAt(i), <<FileNames[i + 1]>> >> : i \in 0..k}]

\* Two files side by side in the root.
TreeFlat ==
    [dirs |-> {<<>>},
     files |-> {<< <<>>, <<"index.html">> >>, << <<>>, <<"app.js">> >>}]

\* A file whose name holds a backslash: legal on POSIX only.
TreeBackslash == [dirs |-> {<<>>}, files |-> {<< <<>>, <<"old", "\\", "x">> >>}]

Trees(os) ==
    {TreeEmpty} \cup {Chain(k) : k \in 0..MaxDepth}
        \cup (IF os = "posix" THEN {TreeBackslash, TreeFlat} ELSE {})

\* What os.walk yields for directory d: its subdirectories and its files.
Children(T, d) ==
    {e \in T.dirs : Len(e) = Len(d) + 1 /\ SubSeq(e, 1, Len(d)) = d}

FilesIn(T, d) == {f[2] : f \in {g \in T.files : g[1] = d}}

Perms(S) ==
    {s \in [1..Cardinality(S) -> S] :
        \A i, j \in 1..Cardinality(S) : i # j => s[i] # s[j]}

RECURSIVE SumFiles(_, _)
SumFiles(T, D) ==
    IF D = {} THEN 0
    ELSE LET d == CHOOSE x \in D : TRUE
         IN  Cardinality(FilesIn(T, d)) + SumFiles(T, D \ {d})

\* Faulty variant: only the files of local_dir itself are counted.
get_total_files_top(T) == Cardinality(FilesIn(T, <<>>))

\* get_total_files: the files of every directory os.walk visits.
get_total_files(T) == SumFiles(T, T.dirs)

\* ---------------------------------------------------------------- profiles
RemoteRoot == <<"/", "srv", "/", "app">>

P1 == [name |-> "prod", host |-> "h1", port |-> 22, username |-> "u",
       password |-> "pw", remote_path |-> RemoteRoot, local_dist |-> "dist",
       test_url |-> "url"]

P2 == [P1 EXCEPT !.name = "test", !.host = "h2"]

Stores == {<<>>, <<P1>>, <<P2, P2>>}


\* str -> int of the port prompt: the inputs int() accepts, and their values.
IsInt(val) == val \in {"22", "2222"}

IntOf(val) == IF val = "22" THEN 22 ELSE 2222

\* What the operator may type at the prompt of one key of the retry menu
\* ("" is a bare return, "x" a port that is no number).
InputsFor(key) ==
    IF key = "port" THEN {"", "2222", "x"} ELSE {""}

AllKeys == {"name", "host", "port", "username", "password", "remote_path",
            "local_dist", "test_url"}

\* The answers to the prompts of one pass through option 1 or 2, by key.
Answers ==
    {[k \in AllKeys |->
        IF k = "port" THEN p ELSE ""] : p \in InputsFor("port")}

\* The keys option 1 of the retry menu prompts for, and those of option 2.
EditKeys(op) ==
    IF op = "1" THEN {"host", "port", "username", "password"} ELSE AllKeys

\* The loops of options 1 and 2: a non-empty answer replaces the field,
\* the port through int().
ApplyEdits(cfg, keys, inp) ==
    [k \in AllKeys |->
        IF k \in keys /\ inp[k] # ""
        THEN (IF k = "port" THEN IntOf(inp[k]) ELSE inp[k])
        ELSE cfg[k]]

\* int(val) raises ValueError.
EditRaises(keys, inp) == "port" \in keys /\ inp["port"] # "" /\ ~IsInt(inp["port"])

\* list.index(x): the first position holding a value equal to x.
IndexOf(list, x) ==
    CHOOSE i \in 1..Len(list) : list[i] = x /\ \A j \in 1..(i - 1) : list[j] # x

\* list.pop(i)
Pop(list, i) == SubSeq(list, 1, i - 1) \o SubSeq(list, i + 1, Len(list))

\* percent of sftp_upload.
Percent(up, total) == (up * 100) \div total

\* save_history_record's choice of file: the date's base name (0) when it does
\* not exist, else the first free numbered suffix.
HistoryPath(names) ==
    IF 0 \notin names THEN 0
    ELSE CHOOSE i \in 1..(Cardinality(names) + 1) :
            i \notin names /\ \A j \in 1..(i - 1) : j \in names

\* ------------------------------------------------------ versions, digests
\* The result of a function that returns a string or None; a string is a
\* sequence of tokens.
NoneV == [some |-> FALSE, val |-> <<>>]

Str(v) == [some |-> TRUE, val |-> v]

\* Python's truth value of such a result: None and '' are false.
Truthy(x) == x.some /\ x.val # <<>>

\* str.startswith.
StartsWith(s, p) == Len(s) >= Len(p) /\ SubSeq(s, 1, Len(p)) = p

\* `tok in s`.
Contains(s, tok) == \E i \in 1..Len(s) : s[i] = tok

RECURSIVE LStrip(_, _)
LStrip(s, ch) == IF s # <<>> /\ Head(s) = ch THEN LStrip(Tail(s), ch) ELSE s

RECURSIVE RStrip(_, _)
RStrip(s, ch) ==
    IF s # <<>> /\ s[Len(s)] = ch THEN RStrip(SubSeq(s, 1, Len(s) - 1), ch) ELSE s

\* str.strip(ch): every leading and trailing ch is dropped.
Strip(s, ch) == RStrip(LStrip(s, ch), ch)

\* str.split(sep): the parts between the separators, empty ones included.
RECURSIVE SplitTok(_, _, _)
SplitTok(s, sep, cur) ==
    IF s = <<>> THEN <<cur>>
    ELSE IF Head(s) = sep THEN <<cur>> \o SplitTok(Tail(s), sep, <<>>)
    ELSE SplitTok(Tail(s), sep, Append(cur, Head(s)))

\* Right-hand sides of the script's `__version__ = ...` line: string literals
\* in either quote, the call the published script holds, and the expression
\* get_today_version is made of.
LitVal(v) == <<"\"", v, "\"">>

SqVal(v) == <<"'", v, "'">>

CallVal == <<"get_today_version", "(", ")">>

DatetimeVal ==
    <<"datetime", ".", "now", "(", ")", ".", "strftime", "(", "\"", "%Y.%m.%d",
      "\"", ")", " ", "+", " ", "\"", "+v1", "\"">>

VersionVals == {LitVal("1.0"), LitVal("2.0"), SqVal("1.0"), CallVal, DatetimeVal}

\* A script: its lines, the version line among them; body tells two scripts
\* with the same version line apart.
Content(val, body) ==
    << <<"import", " ", "os">>,
       <<"__version__", " ", "=", " ">> \o val,
       <<"def", " ", body>> >>

Contents == {Content(v, b) : v \in VersionVals, b \in {"main_a", "main_b"}}

\* The first line of the script that starts with __version__, stripped; <<>>
\* when there is none.
VersionLine(c) ==
    LET at == {i \in 1..Len(c) : StartsWith(Strip(c[i], " "), <<"__version__">>)}
    IN  IF at = {} THEN <<>>
        ELSE Strip(c[CHOOSE i \in at : \A j \in at : i <= j], " ")

\* get_today_version(): the date of the run followed by "+v1".
get_today_version == <<"2026.11.06+v1">>

\* The value __version__ has in a process running script c: the string of a
\* literal, else what get_today_version computes.
LocalVersion(c) ==
    LET val == Strip(SplitTok(VersionLine(c), "=", <<>>)[2], " ")
    IN  IF Len(val) = 3 /\ val[1] \in {"\"", "'"} /\ val[3] = val[1]
        THEN <<val[2]>>
        ELSE get_today_version

\* get_remote_version on the fetched script c: None when no line starts with
\* __version__, when the line has no "=" (IndexError, caught), or when the
\* right-hand side starts with datetime. or holds strftime; else the
\* right-hand side without its quotes.
ParseVersion(c) ==
    LET line == VersionLine(c)
        parts == SplitTok(line, "=", <<>>)
    IN  IF line = <<>> \/ Len(parts) < 2 THEN NoneV
        ELSE LET val == Strip(parts[2], " ")
             IN  IF StartsWith(val, <<"datetime", ".">>) \/ Contains(val, "strftime")
                 THEN NoneV
                 ELSE Str(Strip(Strip(val, "\""), "'"))

\* hashlib.sha256(...).hexdigest(): one digest per content.
Sha256(c) == <<"sha256">> \o c

\* The names the module binds by its import statements.
Imports ==
    {"tqdm", "tempfile", "os", "time", "shutil", "webbrowser", "paramiko", "json",
     "getpass", "sys", "glob", "datetime", "socket", "platform", "urllib",
     "hashlib", "threading", "Path"}

\* ------------------------------------------------------------------- state
VARIABLES
    platform,       \* "posix" or "nt": the machine the program runs on
    tree,           \* the tree the external build leaves at local_dist
    localFs,        \* local_dist is "absent", a "file", or a "dir" holding tree
    store,          \* content of CONFIG_FILE
    remoteDirs,     \* directories of the remote host, resolved
    remoteFiles,    \* files of the remote host, resolved
    historyFiles,   \* HISTORY_DIR: file number |-> record
    pc,             \* position of the main flow
    configs,        \* main_menu's configs list
    config,         \* main_menu's config dict
    sel,            \* position in configs of the dict select_config returned
    config_idx,     \* main_menu's config_idx
    polls,          \* iterations of wait_for_dist's loop so far
    waited,         \* tenths of a second the main flow has spent in the join
                    \* calls of the attempt it is waiting for
    attempts,       \* iterations of the retry loop started (retry_count + 1)
    thread,         \* per attempt: "idle", "connecting", "connected", "done"
    ssh,            \* per attempt: the SSHClient is "new", "connected", "closed"
    result_holder,  \* per attempt: [ok, error]
    last_error,     \* the error text of the last "连接失败" line
    sftp,           \* the SFTP channel: "none", "open", "closed"
    total_files, uploaded, walk, remote_path, filesLeft,
    ops,            \* requests sent to the server in this deploy, in order
    reports,        \* the progress lines printed in this deploy, in order, each
                    \* with the value of uploaded behind it
    out,            \* the other lines printed in this deploy: <<line, attempt>>
    choice,         \* the operator's last answer to the retry menu in this deploy
    store0,         \* content of CONFIG_FILE when this deploy started
    history0,       \* content of HISTORY_DIR when this deploy started
    localFile,      \* the file at sys.argv[0]: [content, mode]
    remoteSrc,      \* the content REMOTE_SCRIPT_URL serves
    upc,            \* position of the menu's version checks and of self_update
    remote_version, \* main_menu's remote_version
    digests,        \* check_need_upgrade's [local_hash, remote_hash]
    tmp,            \* the temporary file of self_update: "none", "partial", "complete"
    uout,           \* the lines the checks and self_update have printed
    sudo_calls,     \* commands run through sudo so far
    exit_status,    \* "none", or the status the process has ended with
    file0           \* the file at sys.argv[0] when the program started

\* The update side of the program, which the deploy flow leaves alone.
updVars == <<localFile, remoteSrc, upc, remote_version, digests, tmp, uout,
             sudo_calls, exit_status, file0>>
envVars == <<platform, tree, updVars>>
diskVars == <<localFs, store, remoteDirs, remoteFiles, historyFiles>>
selVars == <<configs, config, sel, config_idx>>
connVars == <<attempts, thread, ssh, result_holder, last_error>>
walkVars == <<sftp, total_files, uploaded, walk, remote_path, filesLeft, reports>>
ghostVars == <<choice, store0, history0>>
vars == <<envVars, diskVars, selVars, connVars, walkVars, ghostVars,
          pc, polls, waited, ops, out>>

Attempts == 1..max_retries

\* The remote host before the deploy: remote_path exists, and below it one
\* directory an earlier deploy left.
RemoteInit ==
    {<<>>, << <<"srv">> >>, << <<"srv">>, <<"app">> >>,
     << <<"srv">>, <<"app">>, <<"old">> >>}

\* HISTORY_DIR before the deploy, for today's date: empty, or holding the base
\* file and the file numbered 2.
Histories == {<<>>, (0 :> P1) @@ (2 :> P2)}

\* The deploy flow before choice '6'.
DeployIdle ==
    /\ pc = "menu"
    /\ configs = <<>>
    /\ config = P1
    /\ sel = 0
    /\ config_idx = 0
    /\ polls = 0
    /\ waited = 0
    /\ attempts = 0
    /\ thread = [i \in Attempts |-> "idle"]
    /\ ssh = [i \in Attempts |-> "new"]
    /\ result_holder = [i \in Attempts |-> [ok |-> FALSE, error |-> "None"]]
    /\ last_error = "None"
    /\ sftp = "none"
    /\ total_files = 0
    /\ uploaded = 0
    /\ walk = <<>>
    /\ remote_path = <<>>
    /\ filesLeft = {}
    /\ ops = <<>>
    /\ reports = <<>>
    /\ out = {}
    /\ choice = "none"
    /\ store0 = store
    /\ history0 = historyFiles

\* The update side before the menu's checks: nothing fetched, nothing printed.
UpdateLocals ==
    /\ upc = "banner"
    /\ remote_version = NoneV
    /\ digests = [local_hash |-> NoneV, remote_hash |-> NoneV]
    /\ tmp = "none"
    /\ uout = {}
    /\ sudo_calls = 0
    /\ exit_status = "none"
    /\ file0 = localFile

\* The installed file and the published one are the script as published.
UpdateIdle ==
    /\ localFile = [content |-> Content(CallVal, "main_a"), mode |-> "0755"]
    /\ remoteSrc = Content(CallVal, "main_a")
    /\ UpdateLocals

Init ==
    /\ platform \in {"posix", "nt"}
    /\ tree \in Trees(platform)
    /\ localFs \in {"absent", "file", "dir"}
    /\ store \in Stores
    /\ remoteDirs = RemoteInit
    /\ remoteFiles = {}
    /\ historyFiles \in Histories
    /\ DeployIdle
    /\ UpdateIdle


\* --------------------------------------------------------- the environment
\* The external build step leaves its output at local_dist.
Build ==
    /\ localFs # "dir"
    /\ pc \in {"menu", "wait"}
    /\ localFs' = "dir"
    /\ UNCHANGED <<envVars, store, remoteDirs, remoteFiles, historyFiles, selVars,
                   connVars, walkVars, ghostVars, pc, polls, waited, ops, out>>

\* --------------------------------------------------- try_ssh_connect threads
\* ssh.connect returns: the client holds an authenticated session.
ThreadConnected(i) ==
    /\ thread[i] = "connecting"
    /\ thread' = [thread EXCEPT ![i] = "connected"]
    /\ ssh' = [ssh EXCEPT ![i] = "connected"]
    /\ UNCHANGED <<envVars, diskVars, selVars, attempts, result_holder, last_error,
                   walkVars, ghostVars, pc, polls, waited, ops, out>>

\* result_holder['ok'] = True, and the thread ends.
ThreadSetOk(i) ==
    /\ thread[i] = "connected"
    /\ thread' = [thread EXCEPT ![i] = "done"]
    /\ result_holder' = [result_holder EXCEPT ![i].ok = TRUE]
    /\ UNCHANGED <<envVars, diskVars, selVars, attempts, ssh, last_error,
                   walkVars, ghostVars, pc, polls, waited, ops, out>>

\* ssh.connect raises: result_holder['error'] = str(e), and the thread ends.
ThreadFailed(i) ==
    /\ thread[i] = "connecting"
    /\ thread' = [thread EXCEPT ![i] = "done"]
    /\ result_holder' = [result_holder EXCEPT ![i].error = "ConnectError"]
    /\ UNCHANGED <<envVars, diskVars, selVars, attempts, ssh, last_error,
                   walkVars, ghostVars, pc, polls, waited, ops, out>>

\* ------------------------------------------------------ main flow: choice '6'
\* One iteration of the retry loop up to t.start(): a new client, a new
\* result_holder, a new thread.
StartAttempt(n) ==
    /\ attempts' = n
    /\ thread' = [thread EXCEPT ![n] = "connecting"]
    /\ ssh' = [ssh EXCEPT ![n] = "new"]
    /\ result_holder' = [result_holder EXCEPT ![n] = [ok |-> FALSE, error |-> "None"]]
    /\ pc' = "join20"

\* Faulty variant: the loop bound taken one too far.
LoopHasNextOffByOne(n) == n <= max_retries

\* for retry_count in range(max_retries): after n iterations there is another.
LoopHasNext(n) == n < max_retries

\* What a deploy starts from: configs = load_configs(), nothing printed, nothing
\* sent, no thread, no upload.
EnterDeploy ==
    /\ configs' = store
    /\ ops' = <<>>
    /\ reports' = <<>>
    /\ choice' = "none"
    /\ store0' = store
    /\ history0' = historyFiles
    /\ polls' = 0
    /\ waited' = 0
    /\ attempts' = 0
    /\ thread' = [i \in Attempts |-> "idle"]
    /\ ssh' = [i \in Attempts |-> "new"]
    /\ result_holder' = [i \in Attempts |-> [ok |-> FALSE, error |-> "None"]]
    /\ last_error' = "None"
    /\ sftp' = "none"
    /\ total_files' = 0
    /\ uploaded' = 0
    /\ walk' = <<>>
    /\ remote_path' = <<>>
    /\ filesLeft' = {}
    /\ UNCHANGED <<envVars, diskVars>>

\* select_config returns None (no configs, or no valid number): back to the menu.
SelectNone ==
    /\ pc = "menu"
    /\ EnterDeploy
    /\ out' = {<<"no_selection", 0>>}
    /\ pc' = "returned"
    /\ UNCHANGED <<config, sel, config_idx>>

\* Faulty variant: wait_for_dist reports the missing directory and goes on to
\* its loop.
AfterMissingPolls == "wait"

\* wait_for_dist returns False when the path does not exist, and choice '6'
\* continues with the menu loop.
AfterMissing == "returned"

\* select_config returns configs[idx - 1]; then wait_for_dist up to its loop.
Select(idx) ==
    /\ pc = "menu"
    /\ idx \in 1..Len(store)
    /\ EnterDeploy
    /\ config' = store[idx]
    /\ sel' = idx
    /\ config_idx' = IndexOf(store, store[idx])
    /\ IF localFs = "absent"
       THEN out' = {<<"dist_missing", 0>>} /\ pc' = AfterMissing
       ELSE out' = {} /\ pc' = "wait"

\* wait_for_dist's loop finds the directory: the retry loop starts.
WaitFound ==
    /\ pc = "wait"
    /\ polls < timeout
    /\ localFs = "dir"
    /\ StartAttempt(1)
    /\ polls' = 0
    /\ UNCHANGED <<envVars, diskVars, selVars, last_error, walkVars, ghostVars, waited,
                   ops, out>>

\* wait_for_dist's loop does not find it: time.sleep(1).
WaitSleep ==
    /\ pc = "wait"
    /\ polls < timeout
    /\ localFs # "dir"
    /\ polls' = polls + 1
    /\ UNCHANGED <<envVars, diskVars, selVars, connVars, walkVars, ghostVars,
                   pc, waited, ops, out>>

\* wait_for_dist's loop ends: "等待 dist 超时！", back to the menu.
WaitTimeout ==
    /\ pc = "wait"
    /\ polls = timeout
    /\ out' = out \cup {<<"dist_timeout", 0>>}
    /\ pc' = "returned"
    /\ UNCHANGED <<envVars, diskVars, selVars, connVars, walkVars, ghostVars, polls, waited, ops>>

\* The moments, in tenths of a second after the call, a join may be asked to
\* return at; the last one is beyond every timeout of the program.
Waits == {0, 1, 100, 200, 1000}

\* Faulty variant: t.join() without a timeout returns when the thread has ended,
\* never before.
JoinNoTimeout(ended, w, limit) == ended

\* t.join(limit) returns w tenths after the call: when the thread has ended, at
\* most limit after the call; else when limit has passed.
JoinReturns(ended, w, limit) == w <= limit /\ (ended \/ w = limit)

\* t.join(20) returns.
Join20(w) ==
    /\ pc = "join20"
    /\ JoinReturns(thread[attempts] = "done", w, JoinTimeout)
    /\ waited' = w
    /\ pc' = "is_alive"
    /\ UNCHANGED <<envVars, diskVars, selVars, connVars, walkVars, ghostVars, polls, ops, out>>

\* if t.is_alive(): the timeout line is printed.
IsAlive ==
    /\ pc = "is_alive"
    /\ IF thread[attempts] # "done"
       THEN out' = out \cup {<<"timeout", attempts>>} /\ pc' = "join01"
       ELSE out' = out /\ pc' = "check_ok"
    /\ UNCHANGED <<envVars, diskVars, selVars, connVars, walkVars, ghostVars, polls, waited, ops>>

\* t.join(0.1) returns; result_holder['error'] = 'Timeout'.
Join01(w) ==
    /\ pc = "join01"
    /\ JoinReturns(thread[attempts] = "done", w, JoinGrace)
    /\ waited' = waited + w
    /\ result_holder' = [result_holder EXCEPT ![attempts].error = "Timeout"]
    /\ pc' = "check_ok"
    /\ UNCHANGED <<envVars, diskVars, selVars, attempts, thread, ssh, last_error,
                   walkVars, ghostVars, polls, ops, out>>

\* if result_holder['ok']: "连接成功！" and break; else the failure line and
\* the retry menu. The wait for the attempt is over.
CheckOk ==
    /\ pc = "check_ok"
    /\ waited' = 0
    /\ IF result_holder[attempts].ok
       THEN /\ out' = out \cup {<<"connected", attempts>>}
            /\ pc' = "upload"
            /\ UNCHANGED last_error
       ELSE /\ out' = out \cup {<<"failed", attempts>>}
            /\ last_error' = result_holder[attempts].error
            /\ pc' = "ask"
    /\ UNCHANGED <<envVars, diskVars, selVars, attempts, thread, ssh, result_holder,
                   walkVars, ghostVars, polls, ops>>


\* The except clause of choice '6': "部署失败", back to the menu.
DeployFailed ==
    /\ out' = out \cup {<<"deploy_failed", 0>>}
    /\ pc' = "returned"

\* Options 1 and 2 of the retry menu with an answer int() rejects: the
\* ValueError leaves main_menu, the process ends.
AskEditRaises(op, inp) ==
    /\ pc = "ask"
    /\ op \in {"1", "2"}
    /\ EditRaises(EditKeys(op), inp)
    /\ choice' = op
    /\ pc' = "crashed"
    /\ UNCHANGED <<envVars, diskVars, selVars, connVars, walkVars, store0, history0, polls, waited, ops, out>>

\* Options 1 and 2: the answers are stored in config (the dict at configs[sel]),
\* configs[config_idx] = config, save_configs(configs), continue: the next
\* iteration of the retry loop, or its else clause when there is none.
AskEdit(op, inp) ==
    /\ pc = "ask"
    /\ op \in {"1", "2"}
    /\ ~EditRaises(EditKeys(op), inp)
    /\ choice' = op
    /\ config' = ApplyEdits(config, EditKeys(op), inp)
    /\ configs' = [configs EXCEPT ![sel] = config', ![config_idx] = config']
    /\ store' = configs'
    /\ IF LoopHasNext(attempts)
       THEN StartAttempt(attempts + 1) /\ out' = out \cup {<<"retrying", attempts>>}
       ELSE /\ out' = out \cup {<<"retrying", attempts>>, <<"exhausted", 0>>}
            /\ pc' = "returned"
            /\ UNCHANGED <<attempts, thread, ssh, result_holder>>
    /\ UNCHANGED <<envVars, localFs, remoteDirs, remoteFiles, historyFiles, sel,
                   config_idx, last_error, walkVars, store0, history0,
                   polls, waited, ops>>

\* Option 3: configs.pop(config_idx), save_configs(configs), break.
AskDelete ==
    /\ pc = "ask"
    /\ choice' = "3"
    /\ configs' = Pop(configs, config_idx)
    /\ store' = configs'
    /\ out' = out \cup {<<"deleted", attempts>>}
    /\ pc' = "upload"
    /\ UNCHANGED <<envVars, localFs, remoteDirs, remoteFiles, historyFiles, config,
                   sel, config_idx, connVars, walkVars, store0, history0,
                   polls, waited, ops>>

\* Option 4, or any other answer: break.
AskSkip(op) ==
    /\ pc = "ask"
    /\ op \in {"4", "other"}
    /\ choice' = op
    /\ out' = out \cup {<<"skipped", attempts>>}
    /\ pc' = "upload"
    /\ UNCHANGED <<envVars, diskVars, selVars, connVars, walkVars, store0, history0, polls, waited, ops>>


\* ------------------------------------------------------------- sftp_upload
\* ops with one more request: the call, the local directory or file it is made
\* for, the remote path it names, and how it ended.
Sent(op, for, path, res) ==
    Append(ops, [op |-> op, for |-> for, path |-> path, res |-> res])

Exists(p) == p \in remoteDirs \cup remoteFiles

\* Faulty variant: the exception is caught inside sftp_upload, which returns as if
\* the walk had ended.
SftpRaisesSwallowed ==
    /\ out' = out \cup {<<"upload_done", 0>>}
    /\ pc' = "rmtree"

\* Faulty variant: the exception of one call is caught and the walk goes on with the
\* files of the directory.
SftpRaisesContinues ==
    IF walk = <<>> THEN DeployFailed ELSE out' = out /\ pc' = "files"

\* An exception of an SFTP call leaves sftp_upload (nothing in it catches it)
\* and reaches the except clause of choice '6'.
SftpRaises == DeployFailed

\* ssh.open_sftp() on a client that holds no session raises before anything is
\* sent: the except clause of choice '6'.
OpenSftpNoSession ==
    /\ pc = "upload"
    /\ ssh[attempts] # "connected"
    /\ SftpRaises
    /\ UNCHANGED <<envVars, diskVars, selVars, connVars, walkVars, ghostVars, polls, waited, ops>>

\* ssh.open_sftp() fails on the session.
OpenSftpFails ==
    /\ pc = "upload"
    /\ ssh[attempts] = "connected"
    /\ ops' = Sent("open_sftp", <<>>, <<>>, "fail")
    /\ SftpRaises
    /\ UNCHANGED <<envVars, diskVars, selVars, connVars, walkVars, ghostVars, polls, waited>>

\* ssh.open_sftp() succeeds; total_files = get_total_files(local_dir);
\* uploaded = 0; os.walk starts at local_dir.
OpenSftp ==
    /\ pc = "upload"
    /\ ssh[attempts] = "connected"
    /\ ops' = Sent("open_sftp", <<>>, <<>>, "ok")
    /\ sftp' = "open"
    /\ total_files' = get_total_files(tree)
    /\ uploaded' = 0
    /\ walk' = << <<>> >>
    /\ pc' = "walk"
    /\ UNCHANGED <<envVars, diskVars, selVars, connVars, remote_path, filesLeft,
                   reports, ghostVars, polls, waited, out>>

\* The next directory of os.walk: remote_path is computed and sftp.stat sent.
\* res: "ok"; "absent" or "denied" (IOError, so mkdir follows); "dropped" (any
\* other exception, which leaves sftp_upload).
SftpStat(res) ==
    /\ pc = "walk"
    /\ walk # <<>>
    /\ LET d == Head(walk)
           rp == RemoteDirOf(platform, config.remote_path, d)
       IN  /\ res = "ok" => Exists(Resolve(rp))
           /\ res = "absent" => ~Exists(Resolve(rp))
           /\ res = "denied" => Exists(Resolve(rp))
           /\ remote_path' = rp
           /\ filesLeft' = FilesIn(tree, d)
           /\ ops' = Sent("stat", d, rp, res)
    /\ IF res = "ok" THEN pc' = "files" /\ out' = out
       ELSE IF res \in {"absent", "denied"} THEN pc' = "mkdir" /\ out' = out
       ELSE SftpRaises
    /\ UNCHANGED <<envVars, diskVars, selVars, connVars, sftp, total_files, uploaded,
                   walk, reports, ghostVars, polls, waited>>

\* sftp.mkdir(remote_path) after an IOError of stat.
SftpMkdir(res) ==
    /\ pc = "mkdir"
    /\ LET p == Resolve(remote_path)
       IN  IF res = "ok"
           THEN /\ p # <<>> /\ Parent(p) \in remoteDirs /\ ~Exists(p)
                /\ remoteDirs' = remoteDirs \cup {p}
                /\ pc' = "files" /\ out' = out
           ELSE /\ UNCHANGED remoteDirs
                /\ SftpRaises
    /\ ops' = Sent("mkdir", Head(walk), remote_path, res)
    /\ UNCHANGED <<envVars, localFs, store, remoteFiles, historyFiles, selVars,
                   connVars, walkVars, ghostVars, polls, waited>>

\* sftp.put(local_file, remote_file) for one file of the directory; then
\* uploaded += 1 and the percentage is printed.
SftpPut(file, res) ==
    /\ pc = "files"
    /\ file \in filesLeft
    /\ LET rf == RemoteFileOf(platform, remote_path, file)
           p == Resolve(rf)
       IN  /\ ops' = Sent("put", <<Head(walk), file>>, rf, res)
           /\ IF res = "ok"
              THEN /\ p # <<>> /\ Parent(p) \in remoteDirs /\ p \notin remoteDirs
                   /\ remoteFiles' = remoteFiles \cup {p}
                   /\ filesLeft' = filesLeft \ {file}
                   /\ uploaded' = uploaded + 1
                   /\ reports' = Append(reports, [uploaded |-> uploaded',
                                               percent |-> Percent(uploaded', total_files)])
                   /\ pc' = "files" /\ out' = out
              ELSE /\ UNCHANGED <<remoteFiles, filesLeft, uploaded, reports>>
                   /\ SftpRaises
    /\ UNCHANGED <<envVars, localFs, store, remoteDirs, historyFiles, selVars,
                   connVars, sftp, total_files, walk, remote_path, ghostVars, polls, waited>>

\* The files of the directory are done: os.walk goes on with its
\* subdirectories (in the order the listing gave them), then with the rest.
WalkNext(order) ==
    /\ pc = "files"
    /\ filesLeft = {}
    /\ order \in Perms(Children(tree, Head(walk)))
    /\ walk' = order \o Tail(walk)
    /\ pc' = "walk"
    /\ UNCHANGED <<envVars, diskVars, selVars, connVars, sftp, total_files, uploaded,
                   remote_path, filesLeft, reports, ghostVars, polls, waited, ops,
                   out>>

\* os.walk is exhausted: sftp.close(), "上传完成。"; back in choice '6',
\* ssh.close().
UploadReturns ==
    /\ pc = "walk"
    /\ walk = <<>>
    /\ sftp' = "closed"
    /\ ssh' = [ssh EXCEPT ![attempts] = "closed"]
    /\ out' = out \cup {<<"upload_done", 0>>}
    /\ pc' = "rmtree"
    /\ UNCHANGED <<envVars, diskVars, selVars, attempts, thread, result_holder,
                   last_error, total_files, uploaded, walk, remote_path, filesLeft,
                   reports, ghostVars, polls, waited, ops>>

\* shutil.rmtree(config['local_dist']).
Rmtree(res) ==
    /\ pc = "rmtree"
    /\ IF res = "ok"
       THEN /\ localFs' = "absent"
            /\ out' = out \cup {<<"dist_deleted", 0>>}
            /\ pc' = "browser"
       ELSE /\ UNCHANGED localFs
            /\ DeployFailed
    /\ UNCHANGED <<envVars, store, remoteDirs, remoteFiles, historyFiles, selVars,
                   connVars, walkVars, ghostVars, polls, waited, ops>>

\* webbrowser.open(config['test_url']).
OpenBrowser(res) ==
    /\ pc = "browser"
    /\ IF res = "ok" THEN pc' = "history" /\ out' = out ELSE DeployFailed
    /\ UNCHANGED <<envVars, diskVars, selVars, connVars, walkVars, ghostVars, polls, waited, ops>>

\* save_history_record(config).
SaveHistory(res) ==
    /\ pc = "history"
    /\ IF res = "ok"
       THEN /\ LET path == HistoryPath(DOMAIN historyFiles)
               IN  historyFiles' =
                       [n \in DOMAIN historyFiles \cup {path} |->
                           IF n = path THEN config ELSE historyFiles[n]]
            /\ out' = out \cup {<<"history_saved", 0>>}
            /\ pc' = "returned"
       ELSE /\ UNCHANGED historyFiles
            /\ DeployFailed
    /\ UNCHANGED <<envVars, localFs, store, remoteDirs, remoteFiles, selVars,
                   connVars, walkVars, ghostVars, polls, waited, ops>>

\* ---------------------------------------------------------- specification
Results == {"ok", "fail"}

Next ==
    \/ Build
    \/ \E i \in Attempts : ThreadConnected(i) \/ ThreadSetOk(i) \/ ThreadFailed(i)
    \/ SelectNone
    \/ \E idx \in 1..Len(store) : Select(idx)
    \/ WaitFound
    \/ WaitSleep
    \/ WaitTimeout
    \/ \E w \in Waits : Join20(w)
    \/ IsAlive
    \/ \E w \in Waits : Join01(w)
    \/ CheckOk
    \/ \E op \in {"1", "2"}, inp \in Answers : AskEditRaises(op, inp)
    \/ \E op \in {"1", "2"}, inp \in Answers : AskEdit(op, inp)
    \/ AskDelete
    \/ \E op \in {"4", "other"} : AskSkip(op)
    \/ OpenSftpNoSession
    \/ OpenSftpFails
    \/ OpenSftp
    \/ \E res \in {"ok", "absent", "denied", "dropped"} : SftpStat(res)
    \/ \E res \in Results : SftpMkdir(res)
    \/ \E file \in filesLeft, res \in Results : SftpPut(file, res)
    \/ \E order \in Perms(Children(tree, IF walk = <<>> THEN <<>> ELSE Head(walk))) :
         WalkNext(order)
    \/ UploadReturns
    \/ \E res \in Results : Rmtree(res)
    \/ \E res \in Results : OpenBrowser(res)
    \/ \E res \in Results : SaveHistory(res)

Spec == Init /\ [][Next]_vars

\* ------------------------------------------- version checks and self_update
\* A behaviour of UpdateSpec is one iteration of the menu loop answered with
\* '12': get_remote_version, check_need_upgrade, self_update, until control is
\* back in the menu loop (upc = "returned") or the process has ended (upc =
\* "exited").
deployVars == <<platform, tree, diskVars, selVars, connVars, walkVars, ghostVars,
                pc, polls, waited, ops, out>>

UpdateInit ==
    /\ platform \in {"posix", "nt"}
    /\ tree = TreeEmpty
    /\ localFs = "absent"
    /\ store = <<>>
    /\ remoteDirs = RemoteInit
    /\ remoteFiles = {}
    /\ historyFiles = <<>>
    /\ DeployIdle
    /\ localFile \in [content : Contents, mode : {"0755"}]
    /\ remoteSrc \in Contents
    /\ UpdateLocals

\* local_version = __version__: computed when the running script was loaded.
local_version == LocalVersion(file0.content)

\* remote_version = get_remote_version(), and the new-version line of the menu.
\* net: whether urlopen and the read succeed.
GetRemoteVersion(net) ==
    /\ upc = "banner"
    /\ remote_version' = IF net = "ok" THEN ParseVersion(remoteSrc) ELSE NoneV
    /\ uout' = IF Truthy(remote_version') /\ remote_version'.val # local_version
               THEN uout \cup {"new_version"}
               ELSE uout
    /\ upc' = "hash"
    /\ UNCHANGED <<deployVars, localFile, remoteSrc, digests, tmp, sudo_calls,
                   exit_status, file0>>

\* check_need_upgrade(): the two digests (None when the read fails) and the
\* content-changed line.
CheckNeedUpgrade(file, net) ==
    /\ upc = "hash"
    /\ LET local_hash == IF file = "ok" THEN Str(Sha256(localFile.content)) ELSE NoneV
           remote_hash == IF net = "ok" THEN Str(Sha256(remoteSrc)) ELSE NoneV
       IN  /\ digests' = [local_hash |-> local_hash, remote_hash |-> remote_hash]
           /\ uout' = IF Truthy(remote_hash) /\ Truthy(local_hash)
                         /\ local_hash # remote_hash
                      THEN uout \cup {"hash_changed"}
                      ELSE uout
    /\ upc' = "prompt"
    /\ UNCHANGED <<deployVars, localFile, remoteSrc, remote_version, tmp, sudo_calls,
                   exit_status, file0>>

\* The operator answers '12': self_update() starts.
Choose12 ==
    /\ upc = "prompt"
    /\ upc' = "download"
    /\ UNCHANGED <<deployVars, localFile, remoteSrc, remote_version, digests, tmp,
                   uout, sudo_calls, exit_status, file0>>

\* The outer except clause of self_update: "升级失败", and self_update
\* returns.
UpgradeFailed ==
    /\ uout' = uout \cup {"upgrade_failed"}
    /\ upc' = "returned"

\* The download into a NamedTemporaryFile(delete=False). res: "refused"
\* (urlopen raises, no file yet), "broken" (a read or write raises with the
\* file created), "ok".
Download(res) ==
    /\ upc = "download"
    /\ CASE res = "refused" -> tmp' = tmp /\ UpgradeFailed
         [] res = "broken" -> tmp' = "partial" /\ UpgradeFailed
         [] res = "ok" -> /\ tmp' = "complete"
                          /\ uout' = uout \cup {"downloaded"}
                          /\ upc' = "move"
    /\ UNCHANGED <<deployVars, localFile, remoteSrc, remote_version, digests,
                   sudo_calls, exit_status, file0>>

\* `except Exception` of the install step: "覆盖失败", and self_update
\* returns.
OverwriteFailed ==
    /\ uout' = uout \cup {"overwrite_failed"}
    /\ upc' = "returned"

\* shutil.move(tmp_path, target). res: "ok" (the target is the downloaded
\* file, with the mode the temporary file had); "denied" (PermissionError,
\* nothing written); "denied_copied" (the rename was refused, the copy shutil
\* falls back to has written the target's content, and PermissionError comes
\* from copying the metadata); "error" (any other exception).
Move(res) ==
    /\ upc = "move"
    /\ CASE res = "ok" -> /\ localFile' = [content |-> remoteSrc, mode |-> "0600"]
                          /\ tmp' = "none"
                          /\ upc' = "chmod"
                          /\ uout' = uout
         [] res = "denied" -> /\ upc' = "denied"
                              /\ UNCHANGED <<localFile, tmp, uout>>
         [] res = "denied_copied" ->
                /\ localFile' = [localFile EXCEPT !.content = remoteSrc]
                /\ upc' = "denied"
                /\ UNCHANGED <<tmp, uout>>
         [] res = "error" -> /\ OverwriteFailed
                             /\ UNCHANGED <<localFile, tmp>>
    /\ UNCHANGED <<deployVars, remoteSrc, remote_version, digests, sudo_calls,
                   exit_status, file0>>

\* os.chmod(target, 0o755); on success "升级成功" and sys.exit(0), whose
\* SystemExit no except clause of self_update catches.
Chmod(res) ==
    /\ upc = "chmod"
    /\ CASE res = "ok" -> /\ localFile' = [localFile EXCEPT !.mode = "0755"]
                          /\ uout' = uout \cup {"upgraded"}
                          /\ exit_status' = "0"
                          /\ upc' = "exited"
         [] res = "denied" -> /\ upc' = "denied"
                              /\ UNCHANGED <<localFile, uout, exit_status>>
         [] res = "error" -> /\ OverwriteFailed
                             /\ UNCHANGED <<localFile, exit_status>>
    /\ UNCHANGED <<deployVars, remoteSrc, remote_version, digests, tmp, sudo_calls,
                   file0>>

\* except PermissionError with os.name != 'nt': the sudo line is printed and
\* subprocess.check_call(cmd) evaluated. When the name subprocess is bound the
\* command runs (res is how it ends); when it is not, NameError is raised
\* before anything runs. Every failure is caught by `except Exception as e2`.
Escalate(res) ==
    /\ upc = "denied"
    /\ platform # "nt"
    /\ IF "subprocess" \in Imports
       THEN /\ sudo_calls' = sudo_calls + 1
            /\ IF res = "ok"
               THEN /\ localFile' = [content |-> remoteSrc, mode |-> "0755"]
                    /\ tmp' = "none"
                    /\ uout' = uout \cup {"sudo_try", "upgraded_sudo"}
                    /\ exit_status' = "0"
                    /\ upc' = "exited"
               ELSE /\ uout' = uout \cup {"sudo_try", "sudo_failed"}
                    /\ upc' = "returned"
                    /\ UNCHANGED <<localFile, tmp, exit_status>>
       ELSE /\ uout' = uout \cup {"sudo_try", "sudo_failed"}
            /\ upc' = "returned"
            /\ UNCHANGED <<localFile, tmp, sudo_calls, exit_status>>
    /\ UNCHANGED <<deployVars, remoteSrc, remote_version, digests, file0>>

\* except PermissionError with os.name == 'nt': the administrator hint.
DeniedOnNt ==
    /\ upc = "denied"
    /\ platform = "nt"
    /\ uout' = uout \cup {"need_admin"}
    /\ upc' = "returned"
    /\ UNCHANGED <<deployVars, localFile, remoteSrc, remote_version, digests, tmp,
                   sudo_calls, exit_status, file0>>

UpdateNext ==
    \/ \E net \in Results : GetRemoteVersion(net)
    \/ \E file \in Results, net \in Results : CheckNeedUpgrade(file, net)
    \/ Choose12
    \/ \E res \in {"refused", "broken", "ok"} : Download(res)
    \/ \E res \in {"ok", "denied", "denied_copied", "error"} : Move(res)
    \/ \E res \in {"ok", "denied", "error"} : Chmod(res)
    \/ \E res \in Results : Escalate(res)
    \/ DeniedOnNt

UpdateSpec == UpdateInit /\ [][UpdateNext]_vars


\* ------------------------------------------------------------------ claims
Printed(line, i) == <<line, i>> \in out

OpsIdx == 1..Len(ops)

PutOk(i) == ops[i].op = "put" /\ ops[i].res = "ok"

\* The call failed with an exception sftp_upload does not catch.
Failed(i) ==
    \/ ops[i].op \in {"open_sftp", "mkdir", "put"} /\ ops[i].res = "fail"
    \/ ops[i].op = "stat" /\ ops[i].res = "dropped"

\* The deploy has deleted the local tree (which was there when the retry loop
\* started).
TreeDeleted == Printed("dist_deleted", 0) \/ (attempts > 0 /\ localFs # "dir")

\* The local tree is where it was and HISTORY_DIR is as the deploy found it.
NothingConsumed == ~TreeDeleted /\ historyFiles = history0

\* The resolved remote directory / file a local directory / file belongs at.
RemoteHome(d) == Resolve(config.remote_path) \o d

MirrorOf(T) == {RemoteHome(f[1]) \o <<f[2]>> : f \in T.files}

\* The directory was probed and found, or created.
Ensured(d) ==
    \E i \in OpsIdx :
        /\ ops[i].for = d
        /\ \/ ops[i].op = "stat" /\ ops[i].res = "ok"
           \/ ops[i].op = "mkdir" /\ ops[i].res = "ok"

FullUpload ==
    /\ \A d \in tree.dirs : Ensured(d)
    /\ \A f \in tree.files :
          \E i \in OpsIdx : PutOk(i) /\ ops[i].for = f

\* C1: an attempt for which the 20-second wait ran out (the timeout line was
\* printed) is never reported connected, and no SFTP request is sent over its
\* client.
C1_TimeoutIsFailure ==
    \A i \in Attempts :
        Printed("timeout", i) =>
            /\ ~Printed("connected", i)
            /\ (i = attempts => ops = <<>>)

\* C2: after the operator's answer 3, 4 or anything unrecognised, no SFTP
\* request is sent, the local tree is not deleted and no history record is
\* written; after 4 with no earlier edit the Profile store is as it was.
C2_AbortSendsNothing ==
    choice \in {"3", "4", "other"} =>
        /\ ops = <<>>
        /\ NothingConsumed
        /\ (choice = "4" /\ \A i \in Attempts : ~Printed("retrying", i)) => store = store0

\* C3: at most 2 connection attempts are started; once every attempt has
\* failed and been answered with a retry, exhaustion is reported, control is
\* back in the menu, and nothing was sent, deleted or recorded.
C3_RetryBound ==
    /\ attempts <= 2
    /\ (\A i \in 1..2 : Printed("retrying", i)) =>
          /\ Printed("exhausted", 0)
          /\ pc = "returned"
    /\ Printed("exhausted", 0) =>
          /\ \A i \in 1..2 : Printed("failed", i) /\ Printed("retrying", i)
          /\ ops = <<>>
          /\ NothingConsumed

C3_Witness == Printed("exhausted", 0) /\ attempts = 2 /\ pc = "returned"

\* C4: every answer 1 or 2 to a failed attempt is followed by the edits being
\* in the Profile store and by a new connection attempt, the last attempt the
\* retry bound allows included.
C4_EditThenRetry ==
    \A i \in Attempts :
        (Printed("retrying", i) /\ choice \in {"1", "2"}) =>
            /\ store[config_idx] = config
            /\ attempts > i

\* C5: the local tree is deleted, or a history record written, only after an
\* upload in which every directory was ensured and every file put; after a
\* failed SFTP call the tree is intact and no record is written.
C5_ConsumeOnlyAfterFullUpload ==
    /\ (TreeDeleted \/ historyFiles # history0) =>
          /\ Printed("upload_done", 0)
          /\ FullUpload
          /\ \A i \in OpsIdx : ~Failed(i)
    /\ (\E i \in OpsIdx : Failed(i)) => NothingConsumed

C5_Witness ==
    /\ Printed("history_saved", 0)
    /\ localFs = "absent"
    /\ Cardinality(tree.files) >= 2

\* C6: a failed mkdir or put is the last request of the run, it is reported
\* as a failed deploy, and every file put before it is still on the server.
C6_FirstFailureAborts ==
    \A i \in OpsIdx :
        (ops[i].op \in {"mkdir", "put"} /\ ops[i].res = "fail") =>
            /\ i = Len(ops)
            /\ pc = "returned"
            /\ Printed("deploy_failed", 0)
            /\ ~Printed("upload_done", 0)
            /\ \A j \in 1..(i - 1) : PutOk(j) => Resolve(ops[j].path) \in remoteFiles

C6_Witness ==
    /\ ops # <<>>
    /\ ops[Len(ops)].op = "put" /\ ops[Len(ops)].res = "fail"
    /\ \E j \in OpsIdx : PutOk(j)
    /\ filesLeft # {}

\* C7: after a successful upload of tree T every file of T was put exactly
\* once, and the files on the server below remote_path are T's files at T's
\* relative paths.
C7_RemoteMirrorsTree ==
    Printed("upload_done", 0) =>
        /\ Cardinality({i \in OpsIdx : PutOk(i)}) = Cardinality(tree.files)
        /\ {Resolve(ops[i].path) : i \in {j \in OpsIdx : PutOk(j)}} = MirrorOf(tree)
        /\ remoteFiles = MirrorOf(tree)

\* C8: from one progress line to the next neither uploaded nor the percentage
\* decreases; uploaded never exceeds total_files and no percentage exceeds 100.
C8_ProgressMonotone ==
    /\ uploaded <= total_files
    /\ \A i \in 1..Len(reports) :
          /\ reports[i].percent <= 100
          /\ reports[i].uploaded <= total_files
          /\ \A j \in 1..(i - 1) :
                /\ reports[j].percent <= reports[i].percent
                /\ reports[j].uploaded <= reports[i].uploaded

C8_Witness ==
    /\ Len(reports) >= 3
    /\ reports[1].percent < reports[2].percent
    /\ reports[Len(reports)].percent = 100

\* C9: a successful upload of any tree, one without files included, has
\* printed the percentage 100 last; for dist/{index.html, js/app.js} the
\* percentages are 50, 100.
C9_EndsAt100 ==
    Printed("upload_done", 0) =>
        /\ reports # <<>>
        /\ reports[Len(reports)].percent = 100
        /\ tree = Chain(1) => [i \in 1..Len(reports) |-> reports[i].percent] = <<50, 100>>

\* C10: wait_for_dist reports the directory missing only after 600 polls that
\* did not find it.
C10_MissingOnlyAfterPolling ==
    (Printed("dist_missing", 0) \/ Printed("dist_timeout", 0)) => polls = timeout

\* The main flow is in a join call and the call can return.
JoinCanReturn ==
    /\ pc = "join20" => ENABLED (\E w \in Waits : Join20(w))
    /\ pc = "join01" => ENABLED (\E w \in Waits : Join01(w))

\* C17: the wait for an attempt's thread can always end, it has lasted at most
\* 20 seconds when the first join returns and at most 20.1 seconds when the
\* result is read, and an attempt whose thread has not ended by then goes to
\* the failure handling (the retry menu).
C17_WaitIsBounded ==
    /\ [](JoinCanReturn)
    /\ [](pc \in {"is_alive", "join01"} => waited <= JoinTimeout)
    /\ [](pc = "check_ok" => waited <= JoinTimeout + JoinGrace)
    /\ [][(pc = "check_ok" /\ pc' # pc /\ thread[attempts] # "done") =>
            (pc' = "ask" /\ Printed("failed", attempts)')]_vars

C17_Witness ==
    /\ pc = "check_ok"
    /\ thread[attempts] = "connecting"
    /\ waited = JoinTimeout + JoinGrace
    /\ Printed("timeout", attempts)

\* C18: once a deploy whose upload succeeded is over, HISTORY_DIR holds exactly
\* one file more than before, under the name save_history_record chooses (the
\* date, or the date with the first free number), holding the Profile used;
\* and no deploy changes or removes a file HISTORY_DIR held before.
C18_OneRecordPerUpload ==
    /\ \A n \in DOMAIN history0 :
          n \in DOMAIN historyFiles /\ historyFiles[n] = history0[n]
    /\ (Printed("upload_done", 0) /\ pc = "returned") =>
          LET n == HistoryPath(DOMAIN history0)
          IN  /\ DOMAIN historyFiles = DOMAIN history0 \cup {n}
              /\ historyFiles[n] = config

\* C19: after wait_for_dist has reported the directory missing (at once, or
\* after its polls) control is back in the menu, no attempt was started, no
\* thread runs, nothing was sent and the Profile store is as it was.
C19_MissingDirAborts ==
    (Printed("dist_missing", 0) \/ Printed("dist_timeout", 0)) =>
        /\ pc = "returned"
        /\ attempts = 0
        /\ \A i \in Attempts : thread[i] = "idle" /\ ssh[i] = "new"
        /\ ops = <<>>
        /\ store = store0

C19_Witness ==
    /\ Printed("dist_missing", 0)
    /\ pc = "returned"
    /\ Len(store) = 2
    /\ localFs = "absent"

\* Request j has ensured the remote directory p: a probe that found it, or a
\* mkdir that created it.
EnsuredBy(j, p) ==
    /\ ops[j].op \in {"stat", "mkdir"}
    /\ ops[j].res = "ok"
    /\ Resolve(ops[j].path) = p

\* C20: every put, and every probe or mkdir for a directory below the root,
\* names a path whose parent directory was ensured by an earlier request of
\* the run.
C20_ParentEnsuredFirst ==
    \A i \in OpsIdx :
        (ops[i].op = "put" \/ (ops[i].op \in {"stat", "mkdir"} /\ ops[i].for # <<>>)) =>
            \E j \in 1..(i - 1) : EnsuredBy(j, Parent(Resolve(ops[i].path)))

\* The right-hand side of the script's version line is an expression, not a
\* string literal.
IsComputed(c) ==
    LET val == Strip(SplitTok(VersionLine(c), "=", <<>>)[2], " ")
    IN  val[1] \notin {"\"", "'"}

\* C11: when the version line of the remote script holds an expression (a call
\* such as get_today_version(), or a datetime/strftime expression),
\* get_remote_version returns None and the new-version line is not printed.
C11_ComputedVersionUnknown ==
    (upc # "banner" /\ IsComputed(remoteSrc)) =>
        /\ ~remote_version.some
        /\ "new_version" \notin uout

\* C12: when both digests were computed and are equal, neither the new-version
\* line nor the content-changed line is printed; when they differ, the
\* content-changed line is printed.
C12_ProposalFollowsDigest ==
    (upc \notin {"banner", "hash"} /\ digests.local_hash.some /\ digests.remote_hash.some) =>
        IF digests.local_hash = digests.remote_hash
        THEN uout \cap {"new_version", "hash_changed"} = {}
        ELSE "hash_changed" \in uout

\* C13: when self_update returns after a PermissionError of the install step
\* and a failed sudo step, the file at sys.argv[0] has the content and the mode
\* it had before.
C13_FailedInstallLeavesFile ==
    (upc = "returned" /\ "sudo_failed" \in uout) => localFile = file0

\* C14: on a system other than Windows a move refused with PermissionError is
\* followed by exactly one command run through sudo; on Windows none is run.
C14_OneElevatedCall ==
    upc \in {"returned", "exited"} =>
        /\ platform = "nt" => sudo_calls = 0
        /\ (platform # "nt" /\ "sudo_try" \in uout /\ tmp = "complete") => sudo_calls = 1

\* C15: when self_update returns, no temporary file is left.
C15_TempFileRemoved ==
    upc = "returned" => tmp = "none"

\* The download succeeded and shutil.move has put the file in place.
Moved == "downloaded" \in uout /\ tmp = "none"

\* C16: once self_update is over, a download and a move that both succeeded
\* have ended in the process exiting with status 0 and the installed file
\* being executable; the process exits in no other case.
C16_ExitAfterInstall ==
    /\ (upc \in {"returned", "exited"} /\ Moved) =>
          /\ upc = "exited"
          /\ exit_status = "0"
          /\ localFile.mode = "0755"
    /\ upc = "exited" => Moved
    /\ upc # "exited" => exit_status = "none"

\* C21: every mkdir comes right after a probe of the same path for the same
\* directory that reported the path absent; no mkdir follows a probe that
\* succeeded or that failed for another reason.
C21_MkdirOnlyAfterAbsent ==
    \A i \in OpsIdx :
        ops[i].op = "mkdir" =>
            /\ i > 1
            /\ ops[i - 1].op = "stat"
            /\ ops[i - 1].path = ops[i].path
            /\ ops[i - 1].for = ops[i].for
            /\ ops[i - 1].res = "absent"

\* C22: when control is back in the menu the SFTP channel is not open and no
\* SSHClient of the deploy holds a session.
C22_NoSessionLeftOpen ==
    pc = "returned" =>
        /\ sftp # "open"
        /\ \A i \in Attempts : ssh[i] # "connected"

\* C23: whatever the operator answered to the retry menus of a deploy, every
\* entry of the Profile store other than the selected one has the value it
\* had, in the order it had; a delete has removed the selected entry and no
\* other.
C23_OnlySelectedEntryChanges ==
    sel > 0 =>
        IF \E i \in Attempts : Printed("deleted", i)
        THEN store = Pop(store0, sel)
        ELSE /\ Len(store) = Len(store0)
             /\ \A k \in 1..Len(store0) : k # sel => store[k] = store0[k]

====
